---- MODULE Spec2Model ----
(***************************************************************************)
(* Model of gnaf-loader's CSV tooling:                                     *)
(*   - csvloader.py : CsvLoader.load_data and its helpers                  *)
(*   - csvfixer.py  : the stand-alone sanitising script                    *)
(* Text and file contents are sequences of character / byte codes.         *)
(* Spec         runs one program (prog): one load_data call or one run of  *)
(*              csvfixer.py over its argument list.                        *)
(* SpecSimplify calls the static method CsvLoader._simplify_text on a text *)
(*              and then on its own result.                                *)
(***************************************************************************)
EXTENDS Integers, Sequences, FiniteSets, TLC

VARIABLES
    prog,             \* "csvloader" | "csvfixer" | "simplify"
    pc,               \* position of the running program
    err,              \* name of the exception that ended the program, or "none"
    args,             \* load_data arguments: file_path, content, table_name, create_table, encoding
    original_headers, \* load_data local
    headers,          \* load_data local
    table_name,       \* load_data local (None or Some(name))
    connection,       \* "none" | "open" | "closed"
    tables,           \* store: committed tables
    pending,          \* store: tables created in the session's open transaction
    statements,       \* store: statements received, in order
    transmitted,      \* store: bytes received over COPY ... FROM stdin
    rows,             \* store: committed COPY data
    work_file,        \* load_data local: temp file name, 0 before it is assigned
    tmpfs,            \* filesystem: temp file name -> content, for the files that exist
    input_pos,        \* number of bytes already read from the open input file
    argv,             \* csvfixer: args.input, the contents of the input files in order
    file_idx,         \* csvfixer: index of the file the for loop is at
    out_file_name,    \* csvfixer: module-level out_file_name, 0 before it is assigned
    printed,          \* csvfixer: the "File: ..." lines printed, as <<input index, out_file_name>>
    text,             \* SpecSimplify: the argument of the first _simplify_text call
    unified,          \* SpecSimplify: its result
    again             \* SpecSimplify: the result of _simplify_text(unified)

vars == <<prog, pc, err, args, original_headers, headers, table_name, connection,
          tables, pending, statements, transmitted, rows, work_file, tmpfs,
          input_pos, argv, file_idx, out_file_name, printed, text, unified, again>>

loaderVars == <<args, original_headers, headers, table_name, connection, tables,
                pending, statements, transmitted, rows, work_file>>
fixerVars == <<argv, file_idx, out_file_name, printed>>
simplifyVars == <<text, unified, again>>

-----------------------------------------------------------------------------
(* Bounds *)

MaxLen == 3        \* longest enumerated input file of load_data, in bytes
MaxFixLen == 2     \* longest enumerated input file of csvfixer.py, in bytes
MaxInputs == 2     \* most input files on csvfixer.py's command line
MaxText == 4       \* longest enumerated text given to _simplify_text
MaxTmp == 2        \* temp file names mktemp can choose from

-----------------------------------------------------------------------------
(* Optional values *)

None == <<>>
Some(x) == <<x>>

(* Sequences over S of length at most n *)
SeqUpTo(S, n) == UNION {[1..k -> S] : k \in 0..n}

-----------------------------------------------------------------------------
(* CsvLoader._simplify_text *)

IsAlnum(c) == c \in 48..57 \/ c \in 65..90 \/ c \in 97..122

RECURSIVE SkipSpecial(_)
SkipSpecial(s) ==
    IF s = <<>> \/ IsAlnum(Head(s)) THEN s ELSE SkipSpecial(Tail(s))

\* re.sub('[^0-9a-zA-Z]+', '_', text): each maximal run becomes one '_' (95)
RECURSIVE ReSub(_)
ReSub(s) ==
    IF s = <<>> THEN <<>>
    ELSE IF IsAlnum(Head(s)) THEN <<Head(s)>> \o ReSub(Tail(s))
    ELSE <<95>> \o ReSub(SkipSpecial(Tail(s)))

\* the same substitution without the '+': every special character becomes '_'
ReSubEach(s) == [i \in 1..Len(s) |-> IF IsAlnum(s[i]) THEN s[i] ELSE 95]

\* str.lower() on the characters that survive the substitution
Lower(s) == [i \in 1..Len(s) |-> IF s[i] \in 65..90 THEN s[i] + 32 ELSE s[i]]

StripLeadingUnderscore(u) == IF u # <<>> /\ Head(u) = 95 THEN Tail(u) ELSE u

simplify_text_no_collapse(t) == StripLeadingUnderscore(Lower(ReSubEach(t)))

simplify_text_no_lower(t) == StripLeadingUnderscore(ReSub(t))

simplify_text(t) == StripLeadingUnderscore(Lower(ReSub(t)))

-----------------------------------------------------------------------------
(* Text decoding done by open(path, "r", encoding=...) *)

\* UTF-8 over the one- and two-byte forms; the model's files hold no lead
\* byte of a longer form, so every other byte >= 0x80 is a decoding error.
RECURSIVE Utf8Valid(_)
Utf8Valid(b) ==
    IF b = <<>> THEN TRUE
    ELSE IF Head(b) < 128 THEN Utf8Valid(Tail(b))
    ELSE IF Head(b) \in 194..223 /\ Len(b) >= 2 /\ b[2] \in 128..191
         THEN Utf8Valid(Tail(Tail(b)))
    ELSE FALSE

RECURSIVE Utf8Chars(_)
Utf8Chars(b) ==
    IF b = <<>> THEN <<>>
    ELSE IF Head(b) < 128 THEN <<Head(b)>> \o Utf8Chars(Tail(b))
    ELSE <<(Head(b) - 192) * 64 + (b[2] - 128)>> \o Utf8Chars(Tail(Tail(b)))

\* latin-1 maps every byte to the code point of the same value
Decodable(b, encoding) == IF encoding = "utf-8" THEN Utf8Valid(b) ELSE TRUE
Decode(b, encoding) == IF encoding = "utf-8" THEN Utf8Chars(b) ELSE b

-----------------------------------------------------------------------------
(* csv.reader over the first row, default delimiter ',' (44); the model's  *)
(* files hold no quote character and no carriage return                    *)

IndexOf(s, ch) ==
    IF \E i \in 1..Len(s) : s[i] = ch
    THEN CHOOSE i \in 1..Len(s) : s[i] = ch /\ \A j \in 1..(i - 1) : s[j] # ch
    ELSE 0

LastIndexOf(s, ch) ==
    IF \E i \in 1..Len(s) : s[i] = ch
    THEN CHOOSE i \in 1..Len(s) : s[i] = ch /\ \A j \in (i + 1)..Len(s) : s[j] # ch
    ELSE 0

\* the first line of the file, without its line feed (10)
FirstLine(chars) ==
    IF IndexOf(chars, 10) = 0 THEN chars ELSE SubSeq(chars, 1, IndexOf(chars, 10) - 1)

RECURSIVE SplitFields(_)
SplitFields(line) ==
    IF IndexOf(line, 44) = 0 THEN <<line>>
    ELSE <<SubSeq(line, 1, IndexOf(line, 44) - 1)>>
         \o SplitFields(SubSeq(line, IndexOf(line, 44) + 1, Len(line)))

\* next(reader): a blank line is the empty row
FirstRow(chars) == IF FirstLine(chars) = <<>> THEN <<>> ELSE SplitFields(FirstLine(chars))

-----------------------------------------------------------------------------
(* CsvLoader helpers *)

\* the attributes __init__ sets on the instance
self == [_connection_string |-> "dsn"]

\* DEFAULT_TABLE_PREFIX = "csv_"
DEFAULT_TABLE_PREFIX == <<99, 115, 118, 95>>

normalize_headers(hs) == [i \in 1..Len(hs) |-> simplify_text(hs[i])]

\* os.path.basename: what follows the last '/' (47)
basename(p) == SubSeq(p, LastIndexOf(p, 47) + 1, Len(p))

\* os.path.splitext(...)[0]: cut at the last '.' (46) unless only dots precede it
splitext_root(b) ==
    IF LastIndexOf(b, 46) > 0 /\ \E j \in 1..(LastIndexOf(b, 46) - 1) : b[j] # 46
    THEN SubSeq(b, 1, LastIndexOf(b, 46) - 1)
    ELSE b

\* one iteration of the read loop of _remove_invalid_characters: what is
\* written for the byte c
remove_invalid_byte_keep_nul(c) ==
    IF c = 201 THEN <<101>>
    ELSE IF c > 255 THEN <<>>
    ELSE <<c>>

remove_invalid_byte(c) ==
    IF c = 201 THEN <<101>>
    ELSE IF c = 0 THEN <<>>
    ELSE IF c > 255 THEN <<>>
    ELSE <<c>>

\* the same loop in csvfixer.py
fixer_byte(c) ==
    IF c = 201 THEN <<101>>
    ELSE IF c = 0 THEN <<>>
    ELSE IF c > 255 THEN <<>>
    ELSE <<c>>

\* tempfile.mktemp: a name that no existing file has
TempNames == 1..MaxTmp
mktemp == TempNames \ DOMAIN tmpfs

\* open(name, "wb"): the file exists and is empty
Truncated(fs, name) ==
    [n \in DOMAIN fs \cup {name} |-> IF n = name THEN <<>> ELSE fs[n]]

\* output.write(bs) on the open file name
Written(fs, name, bs) == [fs EXCEPT ![name] = @ \o bs]

-----------------------------------------------------------------------------
(* SpecSimplify: _simplify_text applied to a text, then to its result *)

\* "1st Name!!"
FirstName == <<49, 115, 116, 32, 78, 97, 109, 101, 33, 33>>
\* "1st_name"
FirstNameClaimed == <<49, 115, 116, 95, 110, 97, 109, 101>>
\* "1st_name_"
FirstNameActual == <<49, 115, 116, 95, 110, 97, 109, 101, 95>>

\* 'A', 'b', '1', '_', '#', ' '
TextChars == {65, 98, 49, 95, 35, 32}
Texts == SeqUpTo(TextChars, MaxText) \cup {FirstName}

IdleLoader ==
    /\ args = [file_path |-> <<>>, content |-> <<>>, table_name |-> None,
               create_table |-> FALSE, encoding |-> "utf-8"]
    /\ original_headers = <<>>
    /\ headers = <<>>
    /\ table_name = None
    /\ connection = "none"
    /\ tables = {}
    /\ pending = {}
    /\ statements = <<>>
    /\ transmitted = <<>>
    /\ rows = <<>>
    /\ work_file = 0

IdleFixer ==
    /\ argv = <<>>
    /\ file_idx = 0
    /\ out_file_name = 0
    /\ printed = <<>>

IdleSimplify ==
    /\ text = <<>>
    /\ unified = <<>>
    /\ again = <<>>

InitSimplify ==
    /\ prog = "simplify"
    /\ pc = "call"
    /\ err = "none"
    /\ IdleLoader
    /\ IdleFixer
    /\ tmpfs = <<>>
    /\ input_pos = 0
    /\ text \in Texts
    /\ unified = <<>>
    /\ again = <<>>

SimplifyText ==
    /\ prog = "simplify"
    /\ pc = "call"
    /\ unified' = simplify_text(text)
    /\ pc' = "once"
    /\ UNCHANGED <<prog, err, loaderVars, fixerVars, tmpfs, input_pos, text, again>>

SimplifyAgain ==
    /\ prog = "simplify"
    /\ pc = "once"
    /\ again' = simplify_text(unified)
    /\ pc' = "twice"
    /\ UNCHANGED <<prog, err, loaderVars, fixerVars, tmpfs, input_pos, text, unified>>

NextSimplify == SimplifyText \/ SimplifyAgain

SpecSimplify == InitSimplify /\ [][NextSimplify]_vars

\* C9: normalization is idempotent: _simplify_text applied to a result of
\* _simplify_text returns that result unchanged.
C9_Idempotent == pc = "twice" => again = unified

\* a text whose special-character run was collapsed and whose leading
\* underscore was stripped has been normalized twice
C9_Witness ==
    /\ pc = "twice"
    /\ Len(text) >= 3
    /\ ~IsAlnum(text[1])
    /\ ~IsAlnum(text[2])
    /\ unified # text
    /\ unified # <<>>

\* C10 as stated: "1st Name!!" normalizes to "1st_name".
C10_Original == (text = FirstName /\ pc # "call") => unified = FirstNameClaimed

\* C10 amended: "1st Name!!" normalizes to "1st_name_": each special-character
\* run, the trailing "!!" included, becomes one underscore, the result is
\* lowercased, and only a leading underscore is stripped.
C10_Amended == (text = FirstName /\ pc # "call") => unified = FirstNameActual

C10_Witness == text = FirstName /\ pc = "once" /\ unified = FirstNameActual

-----------------------------------------------------------------------------
(* CsvLoader.load_data: inputs *)

\* "data.csv"
PathData == <<100, 97, 116, 97, 46, 99, 115, 118>>
\* "in/My File.csv"
PathMyFile == <<105, 110, 47, 77, 121, 32, 70, 105, 108, 101, 46, 99, 115, 118>>
Paths == {PathData, PathMyFile}

\* "t1", a table name given by the caller
ExplicitTable == <<116, 49>>

\* b"Na\xc9ve,Count\n1,2\n"
NaiveFile == <<78, 97, 201, 118, 101, 44, 67, 111, 117, 110, 116, 10, 49, 44, 50, 10>>
\* b"\xc3\x89,B\n": a header that is valid UTF-8
ValidUtf8File == <<195, 137, 44, 66, 10>>
\* "naeve", "count"
NaiveColumns == <<<<110, 97, 101, 118, 101>>, <<99, 111, 117, 110, 116>>>>

\* 0x00, 0xC9, ',', line feed, 'A', '#'
LoaderBytes == {0, 201, 44, 10, 65, 35}
Contents == SeqUpTo(LoaderBytes, MaxLen) \cup {NaiveFile, ValidUtf8File}

Terminated == err # "none" \/ pc \in {"returned", "exit"}

InitLoader ==
    /\ prog = "csvloader"
    /\ pc = "read_headers"
    /\ err = "none"
    /\ args \in [file_path : Paths, content : Contents,
                 table_name : {None, Some(ExplicitTable)},
                 create_table : BOOLEAN, encoding : {"utf-8", "latin-1"}]
    /\ original_headers = <<>>
    /\ headers = <<>>
    /\ table_name = None
    /\ connection = "none"
    /\ tables \in {{}, {ExplicitTable}}
    /\ pending = {}
    /\ statements = <<>>
    /\ transmitted = <<>>
    /\ rows = <<>>
    /\ work_file = 0
    /\ tmpfs = <<>>
    /\ input_pos = 0
    /\ IdleFixer
    /\ IdleSimplify

Running(p, at) == prog = p /\ pc = at /\ err = "none"

\* an exception leaves the program where it was raised
Raise(e) == err' = e /\ pc' = pc

-----------------------------------------------------------------------------
(* CsvLoader.load_data: steps *)

\* _read_headers: decode the original file and take its first row.  A NUL in
\* the row is an error for the csv module before Python 3.11 and data after.
ReadHeaders ==
    /\ Running("csvloader", "read_headers")
    /\ IF ~Decodable(args.content, args.encoding)
       THEN Raise("UnicodeDecodeError") /\ UNCHANGED original_headers
       ELSE IF args.content = <<>>
       THEN Raise("StopIteration") /\ UNCHANGED original_headers
       ELSE \/ /\ original_headers' = FirstRow(Decode(args.content, args.encoding))
               /\ pc' = "normalize_headers"
               /\ UNCHANGED err
            \/ /\ \E i \in 1..Len(FirstLine(Decode(args.content, args.encoding))) :
                     FirstLine(Decode(args.content, args.encoding))[i] = 0
               /\ Raise("csv.Error")
               /\ UNCHANGED original_headers
    /\ UNCHANGED <<prog, args, headers, table_name, connection, tables, pending,
                   statements, transmitted, rows, work_file, tmpfs, input_pos,
                   fixerVars, simplifyVars>>

NormalizeHeaders ==
    /\ Running("csvloader", "normalize_headers")
    /\ headers' = normalize_headers(original_headers)
    /\ pc' = "table_name"
    /\ UNCHANGED <<prog, err, args, original_headers, table_name, connection, tables,
                   pending, statements, transmitted, rows, work_file, tmpfs,
                   input_pos, fixerVars, simplifyVars>>

\* load_data lines 57-59 with _generate_table_name: self._table_prefix is read
\* from the instance
GenerateTableName ==
    /\ Running("csvloader", "table_name")
    /\ IF args.table_name = None
       THEN IF "_table_prefix" \in DOMAIN self
            THEN /\ table_name' = Some(self["_table_prefix"]
                                       \o simplify_text(splitext_root(basename(args.file_path))))
                 /\ pc' = "connect"
                 /\ UNCHANGED err
            ELSE Raise("AttributeError") /\ UNCHANGED table_name
       ELSE /\ table_name' = args.table_name
            /\ pc' = "connect"
            /\ UNCHANGED err
    /\ UNCHANGED <<prog, args, original_headers, headers, connection, tables, pending,
                   statements, transmitted, rows, work_file, tmpfs, input_pos,
                   fixerVars, simplifyVars>>

\* connect(self._connection_string): the store accepts or refuses
Connect ==
    /\ Running("csvloader", "connect")
    /\ \/ connection' = "open" /\ pc' = "create_table" /\ UNCHANGED err
       \/ Raise("OperationalError") /\ UNCHANGED connection
    /\ UNCHANGED <<prog, args, original_headers, headers, table_name, tables, pending,
                   statements, transmitted, rows, work_file, tmpfs, input_pos,
                   fixerVars, simplifyVars>>

CreateStmt == [op |-> "CREATE", table |-> table_name[1], columns |-> headers]

\* _create_table without connection.commit(): the table stays in the open
\* transaction
CreateTableNoCommit ==
    /\ statements' = Append(statements, CreateStmt)
    /\ \/ /\ pending' = pending \cup {table_name[1]}
          /\ UNCHANGED tables
          /\ pc' = "sanitize"
          /\ UNCHANGED err
       \/ /\ Raise("ProgrammingError")
          /\ pending' = {}
          /\ UNCHANGED tables

\* _create_table: execute CREATE TABLE IF NOT EXISTS, then commit.  The store
\* accepts the statement or rejects it; a rejected statement aborts the
\* transaction.
CreateTable ==
    /\ statements' = Append(statements, CreateStmt)
    /\ \/ /\ tables' = tables \cup pending \cup {table_name[1]}
          /\ pending' = {}
          /\ pc' = "sanitize"
          /\ UNCHANGED err
       \/ /\ Raise("ProgrammingError")
          /\ pending' = {}
          /\ UNCHANGED tables

\* load_data lines 65-67
LoadCreateTable ==
    /\ Running("csvloader", "create_table")
    /\ IF args.create_table
       THEN CreateTable
       ELSE pc' = "sanitize" /\ UNCHANGED <<err, statements, tables, pending>>
    /\ UNCHANGED <<prog, args, original_headers, headers, table_name, connection,
                   transmitted, rows, work_file, tmpfs, input_pos, fixerVars,
                   simplifyVars>>

\* _remove_invalid_characters: mktemp and the two open() calls
RemoveInvalidOpen ==
    /\ Running("csvloader", "sanitize")
    /\ \/ \E name \in mktemp :
             /\ work_file' = name
             /\ tmpfs' = Truncated(tmpfs, name)
             /\ input_pos' = 0
             /\ pc' = "sanitize_loop"
             /\ UNCHANGED err
       \/ Raise("OSError") /\ UNCHANGED <<work_file, tmpfs, input_pos>>
    /\ UNCHANGED <<prog, args, original_headers, headers, table_name, connection,
                   tables, pending, statements, transmitted, rows, fixerVars,
                   simplifyVars>>

\* one iteration of the loop: input.read(1) returned a byte
RemoveInvalidByte ==
    /\ Running("csvloader", "sanitize_loop")
    /\ input_pos < Len(args.content)
    /\ tmpfs' = Written(tmpfs, work_file, remove_invalid_byte(args.content[input_pos + 1]))
    /\ input_pos' = input_pos + 1
    /\ UNCHANGED <<prog, pc, err, loaderVars, fixerVars, simplifyVars>>

\* input.read(1) returned b'': break, close both files, return work_file
RemoveInvalidEOF ==
    /\ Running("csvloader", "sanitize_loop")
    /\ input_pos = Len(args.content)
    /\ pc' = "copy"
    /\ UNCHANGED <<prog, err, loaderVars, tmpfs, input_pos, fixerVars, simplifyVars>>

CopyStmt == [op |-> "COPY", table |-> table_name[1], columns |-> headers]

\* _copy_from_csv up to cursor.copy_expert: the COPY statement is sent; the
\* store rejects it when the table is not visible to the session; otherwise
\* the work file is decoded and streamed, and the store takes all of it or
\* fails after a prefix.  A failure aborts the session's transaction.
CopyExpert ==
    /\ Running("csvloader", "copy")
    /\ statements' = Append(statements, CopyStmt)
    /\ IF table_name[1] \notin tables \cup pending
       THEN Raise("UndefinedTable") /\ pending' = {} /\ UNCHANGED transmitted
       ELSE IF ~Decodable(tmpfs[work_file], args.encoding)
       THEN Raise("UnicodeDecodeError") /\ pending' = {} /\ UNCHANGED transmitted
       ELSE \/ /\ transmitted' = tmpfs[work_file]
               /\ pc' = "copy_commit"
               /\ UNCHANGED <<err, pending>>
            \/ /\ \E k \in {0, Len(tmpfs[work_file])} :
                     transmitted' = SubSeq(tmpfs[work_file], 1, k)
               /\ Raise("DataError")
               /\ pending' = {}
    /\ UNCHANGED <<prog, args, original_headers, headers, table_name, connection, tables,
                   rows, work_file, tmpfs, input_pos, fixerVars, simplifyVars>>

\* connection.commit() of _copy_from_csv
CopyCommit ==
    /\ Running("csvloader", "copy_commit")
    /\ \/ /\ rows' = transmitted
          /\ tables' = tables \cup pending
          /\ pending' = {}
          /\ pc' = "close"
          /\ UNCHANGED err
       \/ /\ Raise("OperationalError")
          /\ pending' = {}
          /\ UNCHANGED <<rows, tables>>
    /\ UNCHANGED <<prog, args, original_headers, headers, table_name, connection,
                   statements, transmitted, work_file, tmpfs, input_pos, fixerVars,
                   simplifyVars>>

\* load_data line 76
Close ==
    /\ Running("csvloader", "close")
    /\ connection' = "closed"
    /\ pc' = "returned"
    /\ UNCHANGED <<prog, err, args, original_headers, headers, table_name, tables,
                   pending, statements, transmitted, rows, work_file, tmpfs,
                   input_pos, fixerVars, simplifyVars>>

-----------------------------------------------------------------------------
(* csvfixer.py *)

\* 0x00, 0xC9, 'A'
FixerBytes == {0, 201, 65}
FixerContents == SeqUpTo(FixerBytes, MaxFixLen)

\* args.input takes one file or more (nargs='+')
InitFixer ==
    /\ prog = "csvfixer"
    /\ pc = "mktemp"
    /\ err = "none"
    /\ argv \in UNION {[1..k -> FixerContents] : k \in 1..MaxInputs}
    /\ file_idx = 0
    /\ out_file_name = 0
    /\ printed = <<>>
    /\ tmpfs = <<>>
    /\ input_pos = 0
    /\ IdleLoader
    /\ IdleSimplify

\* line 15, before the loop over the input files
FixerMktemp ==
    /\ Running("csvfixer", "mktemp")
    /\ \E name \in mktemp : out_file_name' = name
    /\ pc' = "for"
    /\ UNCHANGED <<prog, err, loaderVars, argv, file_idx, printed, tmpfs, input_pos,
                   simplifyVars>>

\* the for loop takes the next file: print, open the input, open the output "wb"
FixerOpen ==
    /\ Running("csvfixer", "for")
    /\ file_idx < Len(argv)
    /\ file_idx' = file_idx + 1
    /\ printed' = Append(printed, <<file_idx + 1, out_file_name>>)
    /\ tmpfs' = Truncated(tmpfs, out_file_name)
    /\ input_pos' = 0
    /\ pc' = "loop"
    /\ UNCHANGED <<prog, err, loaderVars, argv, out_file_name, simplifyVars>>

\* one iteration of the read loop: input.read(1) returned a byte
FixerByte ==
    /\ Running("csvfixer", "loop")
    /\ input_pos < Len(argv[file_idx])
    /\ tmpfs' = Written(tmpfs, out_file_name, fixer_byte(argv[file_idx][input_pos + 1]))
    /\ input_pos' = input_pos + 1
    /\ UNCHANGED <<prog, pc, err, loaderVars, fixerVars, simplifyVars>>

\* input.read(1) returned b'': break, both files are closed
FixerEOF ==
    /\ Running("csvfixer", "loop")
    /\ input_pos = Len(argv[file_idx])
    /\ pc' = "for"
    /\ UNCHANGED <<prog, err, loaderVars, fixerVars, tmpfs, input_pos, simplifyVars>>

\* the for loop is exhausted: the script ends
FixerExit ==
    /\ Running("csvfixer", "for")
    /\ file_idx = Len(argv)
    /\ pc' = "exit"
    /\ UNCHANGED <<prog, err, loaderVars, fixerVars, tmpfs, input_pos, simplifyVars>>

-----------------------------------------------------------------------------

Init == InitLoader \/ InitFixer

Next ==
    \/ ReadHeaders
    \/ NormalizeHeaders
    \/ GenerateTableName
    \/ Connect
    \/ LoadCreateTable
    \/ RemoveInvalidOpen
    \/ RemoveInvalidByte
    \/ RemoveInvalidEOF
    \/ CopyExpert
    \/ CopyCommit
    \/ Close
    \/ FixerMktemp
    \/ FixerOpen
    \/ FixerByte
    \/ FixerEOF
    \/ FixerExit

Spec == Init /\ [][Next]_vars

-----------------------------------------------------------------------------
(* Properties of Spec *)

Content == args.content

\* the filter the sanitizer is meant to compute, stated on the whole input:
\* 0xC9 becomes 'e', 0x00 disappears, the rest stays in order
Sanitized(b) ==
    SelectSeq([i \in 1..Len(b) |-> IF b[i] = 201 THEN 101 ELSE b[i]],
              LAMBDA c : c # 0)

NulCount(b) == Cardinality({i \in 1..Len(b) : b[i] = 0})

IsSanitizationOf(out, in) ==
    /\ out = Sanitized(in)
    /\ \A i \in 1..Len(out) : out[i] # 201 /\ out[i] # 0
    /\ Len(out) = Len(in) - NulCount(in)

AfterSanitize == pc \in {"copy", "copy_commit", "close", "returned"}

\* the table-name step has acted: it returned or raised
AfterTableName ==
    /\ pc \notin {"read_headers", "normalize_headers"}
    /\ ~(pc = "table_name" /\ err = "none")

CopySent == \E i \in 1..Len(statements) : statements[i].op = "COPY"

\* C1: every load that acquired the store session has released it when it
\* ends, by return or by error.
C1_SessionReleased ==
    (prog = "csvloader" /\ Terminated) => connection # "open"

\* C2: before the COPY statement is sent or any byte of the bulk copy is
\* transmitted, the header has been read and the schema planned, and with
\* create_table set CREATE TABLE has been sent first and committed; bytes are
\* transmitted only into a committed table; a failed bulk copy or a failed
\* commit of it leaves the created table committed.
C2_CreateBeforeCopy ==
    prog = "csvloader" =>
        /\ (CopySent \/ transmitted # <<>>) =>
              /\ original_headers = FirstRow(Decode(Content, args.encoding))
              /\ headers = normalize_headers(original_headers)
              /\ table_name # None
        /\ transmitted # <<>> => table_name[1] \in tables
        /\ (CopySent /\ args.create_table) =>
              /\ Len(statements) = 2
              /\ statements[1] = CreateStmt
              /\ statements[2] = CopyStmt
              /\ table_name[1] \in tables
        /\ (args.create_table /\ pc \in {"copy", "copy_commit"} /\ err # "none") =>
              table_name[1] \in tables

\* a bulk copy that failed after transmitting bytes into the table that this
\* load created
C2_Witness ==
    /\ prog = "csvloader"
    /\ args.create_table
    /\ pc = "copy"
    /\ err = "DataError"
    /\ transmitted # <<>>
    /\ statements[1].op = "CREATE"
    /\ table_name[1] \in tables

\* C3: the sanitizer's output is the input with each 0xC9 replaced by 'e',
\* each 0x00 removed and every other byte unchanged, in order: after each
\* byte read the output is that filter of the bytes read so far, and the
\* finished output holds no 0xC9 and no 0x00 and is shorter than the input
\* by the number of 0x00 bytes.  Both copies of the loop are covered.
C3_Sanitizer ==
    /\ (prog = "csvloader" /\ pc = "sanitize_loop") =>
           tmpfs[work_file] = Sanitized(SubSeq(Content, 1, input_pos))
    /\ (prog = "csvloader" /\ AfterSanitize) =>
           IsSanitizationOf(tmpfs[work_file], Content)
    /\ (prog = "csvfixer" /\ pc = "loop") =>
           tmpfs[out_file_name] = Sanitized(SubSeq(argv[file_idx], 1, input_pos))
    /\ (prog = "csvfixer" /\ pc = "for" /\ file_idx >= 1) =>
           IsSanitizationOf(tmpfs[out_file_name], argv[file_idx])

\* a finished sanitization of a file that holds 0xC9, 0x00 and another byte
C3_Witness ==
    /\ prog = "csvloader"
    /\ pc = "copy"
    /\ \E i \in 1..Len(Content) : Content[i] = 201
    /\ \E i \in 1..Len(Content) : Content[i] = 0
    /\ \E i \in 1..Len(Content) : Content[i] \notin {0, 201}
    /\ Len(tmpfs[work_file]) < Len(Content)

\* C4: the table name is the caller's when one is given, and otherwise the
\* prefix followed by the normalized stem of the file path; the derivation
\* does not fail.
C4_TableName ==
    (prog = "csvloader" /\ AfterTableName) =>
        /\ ~(pc = "table_name" /\ err # "none")
        /\ table_name =
              IF args.table_name # None
              THEN args.table_name
              ELSE Some(DEFAULT_TABLE_PREFIX
                        \o simplify_text(splitext_root(basename(args.file_path))))

HeaderBytes == FirstLine(Content)

HeaderHasMarker ==
    /\ \E i \in 1..Len(HeaderBytes) : HeaderBytes[i] = 201
    /\ \A i \in 1..Len(HeaderBytes) : HeaderBytes[i] # 0

\* C5: for a file whose header row holds 0xC9, the header read does not fail
\* and the columns are the normalization of the sanitized header row; for
\* b"Na\xc9ve,Count\n1,2\n" they are "naeve", "count".
C5_SanitizedHeader ==
    (prog = "csvloader" /\ HeaderHasMarker) =>
        /\ ~(pc = "read_headers" /\ err # "none")
        /\ pc \notin {"read_headers", "normalize_headers"} =>
              headers = normalize_headers(FirstRow(Decode(Sanitized(Content), args.encoding)))
        /\ (Content = NaiveFile /\ pc \notin {"read_headers", "normalize_headers"}) =>
              headers = NaiveColumns

ValidIdentifier(c) ==
    /\ c # <<>>
    /\ \A i \in 1..Len(c) : c[i] \in 48..57 \/ c[i] \in 97..122 \/ c[i] = 95
    /\ c[1] # 95

OnlySpecial(h) == h # <<>> /\ \A i \in 1..Len(h) : ~IsAlnum(h[i])

\* C6: every column identifier in a CREATE TABLE or COPY statement is
\* non-empty, lowercase alphanumeric or underscore, and does not start with an
\* underscore; a load whose header has an entry of special characters only
\* ends without connecting or sending a statement, and does not return.
C6_ValidIdentifiers ==
    prog = "csvloader" =>
        /\ \A i \in 1..Len(statements) :
              \A j \in 1..Len(statements[i].columns) :
                 ValidIdentifier(statements[i].columns[j])
        /\ (\E j \in 1..Len(original_headers) : OnlySpecial(original_headers[j])) =>
              /\ connection = "none"
              /\ statements = <<>>
              /\ pc # "returned"

\* C7: once load has returned or failed, the temporary file it created no
\* longer exists.
C7_TempFileRemoved ==
    (prog = "csvloader" /\ Terminated /\ work_file # 0) =>
        work_file \notin DOMAIN tmpfs

\* C8: after csvfixer.py has run, every input has its own output file, at a
\* path no other input was written to, holding the sanitization of that input.
C8_OneOutputPerInput ==
    (prog = "csvfixer" /\ pc = "exit") =>
        /\ Len(printed) = Len(argv)
        /\ \A i \in 1..Len(argv) :
              /\ printed[i][1] = i
              /\ printed[i][2] \in DOMAIN tmpfs
              /\ tmpfs[printed[i][2]] = Sanitized(argv[i])
        /\ \A i, j \in 1..Len(argv) : i # j => printed[i][2] # printed[j][2]

====
